---- MODULE Spec2Model ----
(* Model of the Redis reconciler, controllers/redis/redis_controller.go.   *)
(* One Reconcile action is one whole pass of Reconciler.Reconcile,         *)
(* including its deferred status patch.  The object store, the secrets and *)
(* the readiness of the workload are changed by environment actions        *)
(* between passes.  The collaborators of lib-common (rbac, tls, configmap, *)
(* service, statefulset, helper) are modelled by the results they hand     *)
(* back to Reconcile, drawn from the set Outcomes.                          *)
EXTENDS Integers, FiniteSets, Sequences, TLC

\* ---------------------------------------------------------------- bounds
MaxVer == 1          \* a secret holds one of the contents 0..MaxVer
MaxReplicas == 1     \* ready replicas the StatefulSet may report
MaxFaults == 1       \* passes of one run in which a collaborator fails or is still converging

\* ------------------------------------------------------------ vocabulary
ReadyCondition == "Ready"
TLSInputReadyCondition == "TLSInputReady"
ExposeServiceReadyCondition == "ExposeServiceReady"
ServiceConfigReadyCondition == "ServiceConfigReady"
DeploymentReadyCondition == "DeploymentReady"
ServiceAccountReadyCondition == "ServiceAccountReady"
RoleReadyCondition == "RoleReady"
RoleBindingReadyCondition == "RoleBindingReady"

\* the list handed to condition.CreateList
SubConditions ==
  { TLSInputReadyCondition, ExposeServiceReadyCondition, ServiceConfigReadyCondition,
    DeploymentReadyCondition, ServiceAccountReadyCondition, RoleReadyCondition,
    RoleBindingReadyCondition }

AllConditions == SubConditions \cup {ReadyCondition}

\* common.InputHashName, the slot of the aggregate hash in Status.Hash
InputHashName == "input"
\* keys of inputHashEnv: the two secrets and the two config maps of generateConfigMaps
EnvKeys == <<"CA", "Cert", "config-data", "scripts">>
EnvKeySet == {EnvKeys[i] : i \in 1..Len(EnvKeys)}
HashKeys == EnvKeySet \cup {InputHashName}

Absent == -1         \* the key is not in the map
EmptyHash == 0       \* the "" a failed validation returns

\* the three objects of common_rbac.ReconcileRbac, in the order it handles them
RbacObjects == <<"serviceaccount", "role", "rolebinding">>
RbacConditionOf ==
  [ serviceaccount |-> ServiceAccountReadyCondition,
    role |-> RoleReadyCondition,
    rolebinding |-> RoleBindingReadyCondition ]

\* ------------------------------------------------------------- hashing
\* content hash of a secret, as returned by ValidateCertSecret / ValidateCACertSecret
SecretHash(c) == 2 * c + 1
MaxHash == 2 * MaxVer + 1
\* hashes of the two rendered config maps (templates without parameters)
ScriptsHash == 2
ConfigDataHash == 4

NoEnv == [k \in EnvKeySet |-> Absent]

RECURSIVE EncodeEnv(_, _)
EncodeEnv(m, i) ==
  IF i > Len(EnvKeys) THEN 0
  ELSE (m[EnvKeys[i]] + 1) + (MaxHash + 2) * EncodeEnv(m, i + 1)

\* util.HashOfInputHashes: one hash over the key-sorted entries of the map
HashOfInputHashes(m) == 1 + EncodeEnv(m, 1)

\* SetHash that reports the change but forgets to store the new hash
SetHashNoStore(hashMap, hashType, hashStr) ==
  [hashMap |-> hashMap, changed |-> hashMap[hashType] # hashStr]

\* util.SetHash(hashMap, hashType, hashStr): sets hashMap[hashType] and tells
\* whether that changed it
SetHash(hashMap, hashType, hashStr) ==
  IF hashMap[hashType] # hashStr
  THEN [hashMap |-> [hashMap EXCEPT ![hashType] = hashStr], changed |-> TRUE]
  ELSE [hashMap |-> hashMap, changed |-> FALSE]

\* ---------------------------------------------------- condition ledger
NilStatus ==
  [ init |-> FALSE,
    cond |-> [c \in AllConditions |-> "Unknown"],
    hash |-> [k \in HashKeys |-> Absent] ]

MarkTrue(st, c) == [st EXCEPT !.cond[c] = "True"]
\* a failure recorded with UnknownCondition in place of FalseCondition
MarkFalseAsUnknown(st, c) == [st EXCEPT !.cond[c] = "Unknown"]

MarkFalse(st, c) == [st EXCEPT !.cond[c] = "False"]
MarkUnknown(st, c) == [st EXCEPT !.cond[c] = "Unknown"]

\* Conditions.Init(&cl): Ready and every condition of the list, all Unknown
InitConditions(st) ==
  [st EXCEPT !.init = TRUE, !.cond = [c \in AllConditions |-> "Unknown"]]

AllSubConditionIsTrue(st) == \A c \in SubConditions : st.cond[c] = "True"

\* Conditions.Mirror: the state of the most severe condition, False before
\* Unknown before True
Mirror(st) ==
  IF \E c \in AllConditions : st.cond[c] = "False" THEN "False"
  ELSE IF \E c \in AllConditions : st.cond[c] = "Unknown" THEN "Unknown"
  ELSE "True"

\* ------------------------------------------------ collaborator results
\* ctrl.Result{} and a non-empty ctrl.Result
Results == {"empty", "requeue"}

\* what the collaborators hand back in one pass when nothing goes wrong
NoFault ==
  [ get |-> "ok",            \* r.Get: "ok", "notfound" or "error"
    helperErr |-> FALSE,     \* helper.NewHelper fails
    rbacStop |-> 0,          \* index in RbacObjects at which ReconcileRbac stops, 0 = none
    rbacRes |-> "empty", rbacErr |-> "nil",
    certErr |-> FALSE,       \* ValidateCertSecret fails
    caErr |-> FALSE,         \* ValidateCACertSecret fails
    cmErr |-> FALSE,         \* configmap.EnsureConfigMaps fails
    hashErr |-> FALSE,       \* util.HashOfInputHashes fails
    hlNewErr |-> FALSE,      \* commonservice.NewService(HeadlessService) fails
    hlres |-> "empty", hlerr |-> "nil",
    svcNewErr |-> FALSE,     \* commonservice.NewService(Service) fails
    sres |-> "empty", serr |-> "nil",
    sfres |-> "empty", sferr |-> "nil",
    patchErr |-> FALSE ]     \* helper.PatchInstance fails

FaultSites ==
  { "none", "get", "helper", "serviceaccount", "role", "rolebinding", "cert", "ca", "config", "hash",
    "headlessNew", "headless", "serviceNew", "service", "statefulset" }

\* an upsert that fails hands back (res, "err"); one that is still converging
\* hands back ("requeue", nil)
UpsertRes(kind, res) == IF kind = "pending" THEN "requeue" ELSE res
UpsertErr(kind, name) == IF kind = "pending" THEN "nil" ELSE name

Outcome(site, kind, res, patchErr) ==
  LET d == [NoFault EXCEPT !.patchErr = patchErr] IN
  CASE site = "none" -> d
    [] site = "get" -> [d EXCEPT !.get = "error"]
    [] site = "helper" -> [d EXCEPT !.helperErr = TRUE]
    [] site \in {"serviceaccount", "role", "rolebinding"} ->
         [d EXCEPT !.rbacStop = CHOOSE i \in 1..3 : RbacObjects[i] = site,
                   !.rbacRes = UpsertRes(kind, res),
                   !.rbacErr = UpsertErr(kind, "rbacErr")]
    [] site = "cert" -> [d EXCEPT !.certErr = TRUE]
    [] site = "ca" -> [d EXCEPT !.caErr = TRUE]
    [] site = "config" -> [d EXCEPT !.cmErr = TRUE]
    [] site = "hash" -> [d EXCEPT !.hashErr = TRUE]
    [] site = "headlessNew" -> [d EXCEPT !.hlNewErr = TRUE]
    [] site = "headless" ->
         [d EXCEPT !.hlres = UpsertRes(kind, res), !.hlerr = UpsertErr(kind, "hlerr")]
    [] site = "serviceNew" -> [d EXCEPT !.svcNewErr = TRUE]
    [] site = "service" ->
         [d EXCEPT !.sres = UpsertRes(kind, res), !.serr = UpsertErr(kind, "serr")]
    [] site = "statefulset" ->
         [d EXCEPT !.sfres = UpsertRes(kind, res), !.sferr = UpsertErr(kind, "sferr")]

Outcomes ==
  { Outcome(site, kind, res, p) :
      site \in FaultSites, kind \in {"error", "pending"}, res \in Results, p \in BOOLEAN }

\* ------------------------------------------------------------ the pass
NoReport == [res |-> "empty", err |-> "nil"]

\* the working state of a pass: the in-memory instance.Status, the
\* collaborators called so far, the sub-resources upserted so far, the
\* upserts that reported a non-empty result without error, the result and
\* error the last upsert handed back, and inputHashEnv
StartCtx(st) ==
  [ st |-> st, calls |-> {}, upserted |-> {}, pending |-> {}, reported |-> NoReport,
    env |-> NoEnv ]

\* a collaborator is called
Called(c, name) == [c EXCEPT !.calls = @ \cup {name}]

\* an upsert (CreateOrPatch) is called and hands back (res, err)
Upsert(c, name, res, err) ==
  [c EXCEPT !.calls = @ \cup {name},
            !.reported = [res |-> res, err |-> err],
            !.upserted = IF err = "nil" THEN @ \cup {name} ELSE @,
            !.pending = IF err = "nil" /\ res # "empty" THEN @ \cup {name} ELSE @]

\* a return statement of Reconcile: the path taken, the values returned and
\* whether the statement panicked before returning
Exit(path, c, res, err) ==
  [ path |-> path, st |-> c.st, res |-> res, err |-> err, panicked |-> FALSE,
    reported |-> c.reported,
    calls |-> c.calls, upserted |-> c.upserted, pending |-> c.pending, env |-> c.env ]

\* err.Error() on the nil err of the successful NewService: the statement
\* panics before Conditions.Set and before the return
NilErrorPanic(path, c) == [Exit(path, c, "empty", "nil") EXCEPT !.panicked = TRUE]

\* the StatefulSet stage if an upsert failure marked the workload not ready,
\* as the endpoint stages do for their condition
StatefulSetStageMarkFalse(c0, readyReplicas, o) ==
  LET c1 == Upsert(c0, "statefulset", o.sfres, o.sferr) IN
  IF o.sferr # "nil"
  THEN Exit("statefulsetError",
            [c1 EXCEPT !.st = MarkFalse(@, DeploymentReadyCondition)], o.sfres, o.sferr)
  ELSE
    LET c2 == IF readyReplicas > 0
              THEN [c1 EXCEPT !.st = MarkTrue(@, DeploymentReadyCondition)]
              ELSE c1
    IN Exit("done", c2, "empty", "nil")

\* the StatefulSet stage if it asked for a requeue while no replica is ready
StatefulSetStageRequeueUnready(c0, readyReplicas, o) ==
  LET c1 == Upsert(c0, "statefulset", o.sfres, o.sferr) IN
  IF o.sferr # "nil" THEN Exit("statefulsetError", c1, o.sfres, o.sferr)
  ELSE IF readyReplicas > 0
       THEN Exit("done", [c1 EXCEPT !.st = MarkTrue(@, DeploymentReadyCondition)],
                 "empty", "nil")
       ELSE Exit("done", c1, "requeue", "nil")

\* the StatefulSet stage with an else branch that marks the workload not
\* ready while no replica is ready
StatefulSetStageElseFalse(c0, readyReplicas, o) ==
  LET c1 == Upsert(c0, "statefulset", o.sfres, o.sferr) IN
  IF o.sferr # "nil" THEN Exit("statefulsetError", c1, o.sfres, o.sferr)
  ELSE
    LET c2 == IF readyReplicas > 0
              THEN [c1 EXCEPT !.st = MarkTrue(@, DeploymentReadyCondition)]
              ELSE [c1 EXCEPT !.st = MarkFalse(@, DeploymentReadyCondition)]
    IN Exit("done", c2, "empty", "nil")

\* lines 317-329: the StatefulSet
StatefulSetStage(c0, readyReplicas, o) ==
  LET c1 == Upsert(c0, "statefulset", o.sfres, o.sferr) IN
  IF o.sferr # "nil" THEN Exit("statefulsetError", c1, o.sfres, o.sferr)
  ELSE
    LET c2 == IF readyReplicas > 0
              THEN [c1 EXCEPT !.st = MarkTrue(@, DeploymentReadyCondition)]
              ELSE c1
    IN Exit("done", c2, "empty", "nil")

\* the service stage without the MarkTrue of line 311
ServiceStageNoMarkTrue(c0, readyReplicas, o) ==
  IF o.svcNewErr
  THEN Exit("serviceNewError",
            [c0 EXCEPT !.st = MarkFalse(@, ExposeServiceReadyCondition)],
            "empty", "svcNewErr")
  ELSE
    LET c1 == Upsert(c0, "service", o.sres, o.serr) IN
    IF o.serr # "nil" THEN NilErrorPanic("serviceError", c1)
    ELSE StatefulSetStage(c1, readyReplicas, o)

\* lines 290-311: the service that exposes the pods
ServiceStage(c0, readyReplicas, o) ==
  IF o.svcNewErr
  THEN Exit("serviceNewError",
            [c0 EXCEPT !.st = MarkFalse(@, ExposeServiceReadyCondition)],
            "empty", "svcNewErr")
  ELSE
    LET c1 == Upsert(c0, "service", o.sres, o.serr) IN
    IF o.serr # "nil" THEN NilErrorPanic("serviceError", c1)
    ELSE StatefulSetStage([c1 EXCEPT !.st = MarkTrue(@, ExposeServiceReadyCondition)],
                          readyReplicas, o)

\* the headless stage if it handed a non-empty result on, as the rbac stage
\* does at lines 200-202
HeadlessStageReturnPending(c0, readyReplicas, o) ==
  IF o.hlNewErr
  THEN Exit("headlessNewError",
            [c0 EXCEPT !.st = MarkFalse(@, ExposeServiceReadyCondition)],
            "empty", "hlNewErr")
  ELSE
    LET c1 == Upsert(c0, "headless", o.hlres, o.hlerr) IN
    IF o.hlerr # "nil" THEN NilErrorPanic("headlessError", c1)
    ELSE IF o.hlres # "empty" THEN Exit("done", c1, o.hlres, "nil")
    ELSE ServiceStage(c1, readyReplicas, o)

\* lines 267-288: the headless service
HeadlessStage(c0, readyReplicas, o) ==
  IF o.hlNewErr
  THEN Exit("headlessNewError",
            [c0 EXCEPT !.st = MarkFalse(@, ExposeServiceReadyCondition)],
            "empty", "hlNewErr")
  ELSE
    LET c1 == Upsert(c0, "headless", o.hlres, o.hlerr) IN
    IF o.hlerr # "nil" THEN NilErrorPanic("headlessError", c1)
    ELSE ServiceStage(c1, readyReplicas, o)

\* the hash stage if the loop of lines 258-262 wrote every input hash into
\* the slot of the aggregate instead of its own
HashStageLoopOverwrites(c0, readyReplicas, o) ==
  LET c1 == Called(c0, "hash") IN
  IF o.hashErr THEN Exit("hashError", c1, "empty", "hashErr")
  ELSE
    LET hashOfHashes == HashOfInputHashes(c1.env)
        sh == SetHash(c1.st.hash, InputHashName, hashOfHashes)
    IN
    IF sh.changed
    THEN Exit("hashChanged",
              [c1 EXCEPT !.st.hash = [sh.hashMap EXCEPT ![InputHashName] = ScriptsHash]],
              "empty", "nil")
    ELSE HeadlessStage(c1, readyReplicas, o)

\* the hash stage if a drift pass built Status.Hash anew from the inputs of
\* this pass
HashStageRebuilds(c0, readyReplicas, o) ==
  LET c1 == Called(c0, "hash") IN
  IF o.hashErr THEN Exit("hashError", c1, "empty", "hashErr")
  ELSE
    LET hashOfHashes == HashOfInputHashes(c1.env)
        sh == SetHash(c1.st.hash, InputHashName, hashOfHashes)
    IN
    IF sh.changed
    THEN Exit("hashChanged",
              [c1 EXCEPT !.st.hash =
                 [k \in HashKeys |->
                    IF k \in EnvKeySet THEN c1.env[k] ELSE hashOfHashes]],
              "empty", "nil")
    ELSE HeadlessStage(c1, readyReplicas, o)

\* lines 246-265: the aggregate hash and its comparison with Status.Hash
HashStage(c0, readyReplicas, o) ==
  LET c1 == Called(c0, "hash") IN
  IF o.hashErr THEN Exit("hashError", c1, "empty", "hashErr")
  ELSE
    LET hashOfHashes == HashOfInputHashes(c1.env)
        sh == SetHash(c1.st.hash, InputHashName, hashOfHashes)
    IN
    IF sh.changed
    THEN Exit("hashChanged",
              [c1 EXCEPT !.st.hash =
                 [k \in HashKeys |->
                    IF k \in EnvKeySet /\ c1.env[k] # Absent THEN c1.env[k]
                    ELSE sh.hashMap[k]]],
              "empty", "nil")
    ELSE HeadlessStage(c1, readyReplicas, o)

\* generateConfigMaps, lines 332-370: EnsureConfigMaps upserts the two config
\* maps and adds one hash per config map to envVars
generateConfigMaps(c0, o) ==
  LET c1 == Called(c0, "configmaps") IN
  IF o.cmErr THEN [c |-> c1, err |-> "cmErr"]
  ELSE [ c |-> [c1 EXCEPT !.upserted = @ \cup {"scripts", "config-data"},
                          !.env["scripts"] = ScriptsHash,
                          !.env["config-data"] = ConfigDataHash],
         err |-> "nil" ]

\* the configuration stage without the return of line 242
ConfigStageNoReturn(c0, readyReplicas, o) ==
  LET g == generateConfigMaps(c0, o) IN
  HashStage([g.c EXCEPT !.st = IF g.err # "nil"
                               THEN MarkFalse(@, ServiceConfigReadyCondition)
                               ELSE MarkTrue(@, ServiceConfigReadyCondition)],
            readyReplicas, o)

\* lines 233-244
ConfigStage(c0, readyReplicas, o) ==
  LET g == generateConfigMaps(c0, o) IN
  IF g.err # "nil"
  THEN Exit("configError",
            [g.c EXCEPT !.st = MarkFalse(@, ServiceConfigReadyCondition)],
            "empty", "configmapHashErr")
  ELSE HashStage([g.c EXCEPT !.st = MarkTrue(@, ServiceConfigReadyCondition)],
                 readyReplicas, o)

\* ValidateCertSecret / ValidateCACertSecret on a secret of the given
\* content: the hash of a valid secret, "" and an error for a missing or
\* malformed one
ValidateSecret(content, fails) ==
  IF fails THEN [hash |-> EmptyHash, err |-> "secretErr"]
  ELSE [hash |-> SecretHash(content), err |-> "nil"]

\* the CA bundle read only when the certificate is configured too
CAWantedWhenEnabled(tlsSpec) == tlsSpec.enabled /\ tlsSpec.caBundleSecretName

\* lines 210 and 214: which of the two secrets the spec makes the pass read
CertWanted(tlsSpec) == tlsSpec.enabled
CAWanted(tlsSpec) == tlsSpec.caBundleSecretName

\* the TLS stage without the return of line 229: a failed validation marks
\* the condition False and the pass goes on
TLSStageNoReturn(c0, tlsSpec, cert, ca, readyReplicas, o) ==
  LET v1 == IF CertWanted(tlsSpec) THEN ValidateSecret(cert, o.certErr)
            ELSE [hash |-> EmptyHash, err |-> "nil"]
      c1 == IF CertWanted(tlsSpec)
            THEN [Called(c0, "cert") EXCEPT !.env["Cert"] = v1.hash]
            ELSE c0
      doCA == v1.err = "nil" /\ CAWanted(tlsSpec)
      v2 == IF doCA THEN ValidateSecret(ca, o.caErr) ELSE v1
      c2 == IF doCA
            THEN [Called(c1, "ca") EXCEPT !.env["CA"] = v2.hash]
            ELSE c1
  IN ConfigStage([c2 EXCEPT !.st = IF v2.err # "nil"
                                   THEN MarkFalse(@, TLSInputReadyCondition)
                                   ELSE MarkTrue(@, TLSInputReadyCondition)],
                 readyReplicas, o)

\* lines 204-231: check and hash the TLS inputs
TLSStage(c0, tlsSpec, cert, ca, readyReplicas, o) ==
  LET v1 == IF CertWanted(tlsSpec) THEN ValidateSecret(cert, o.certErr)
            ELSE [hash |-> EmptyHash, err |-> "nil"]
      c1 == IF CertWanted(tlsSpec)
            THEN [Called(c0, "cert") EXCEPT !.env["Cert"] = v1.hash]
            ELSE c0
      doCA == v1.err = "nil" /\ CAWanted(tlsSpec)
      v2 == IF doCA THEN ValidateSecret(ca, o.caErr) ELSE v1
      c2 == IF doCA
            THEN [Called(c1, "ca") EXCEPT !.env["CA"] = v2.hash]
            ELSE c1
  IN
  IF v2.err # "nil"
  THEN Exit("tlsInputError",
            [c2 EXCEPT !.st = MarkFalse(@, TLSInputReadyCondition)],
            "empty", "inputHashErr")
  ELSE ConfigStage([c2 EXCEPT !.st = MarkTrue(@, TLSInputReadyCondition)],
                   readyReplicas, o)

\* common_rbac.ReconcileRbac: service account, role, role binding in turn;
\* each one upserted marks its condition True, the one it stops at marks its
\* condition False and hands back its result and error
RECURSIVE ReconcileRbac(_, _, _)
ReconcileRbac(c, i, o) ==
  IF i > Len(RbacObjects) THEN [c |-> c, res |-> "empty", err |-> "nil"]
  ELSE
    LET name == RbacObjects[i] IN
    IF o.rbacStop = i
    THEN [ c |-> [Upsert(c, name, o.rbacRes, o.rbacErr) EXCEPT
                    !.st = MarkFalse(@, RbacConditionOf[name])],
           res |-> o.rbacRes, err |-> o.rbacErr ]
    ELSE ReconcileRbac(
           [Upsert(c, name, "empty", "nil") EXCEPT
              !.st = MarkTrue(@, RbacConditionOf[name])],
           i + 1, o)

\* the rbac stage without the branch of lines 200-202: a pending result is
\* dropped and the pass goes on
RbacStageIgnorePending(c0, tlsSpec, cert, ca, readyReplicas, o) ==
  LET rb == ReconcileRbac(c0, 1, o) IN
  IF rb.err # "nil" THEN Exit("rbacError", rb.c, rb.res, rb.err)
  ELSE TLSStage(rb.c, tlsSpec, cert, ca, readyReplicas, o)

\* lines 183-202
RbacStage(c0, tlsSpec, cert, ca, readyReplicas, o) ==
  LET rb == ReconcileRbac(c0, 1, o) IN
  IF rb.err # "nil" THEN Exit("rbacError", rb.c, rb.res, rb.err)
  ELSE IF rb.res # "empty" THEN Exit("rbacPending", rb.c, rb.res, "nil")
  ELSE TLSStage(rb.c, tlsSpec, cert, ca, readyReplicas, o)

\* the initialization without the return of line 176
InitStageNoReturn(c0, tlsSpec, cert, ca, readyReplicas, o) ==
  RbacStage([c0 EXCEPT !.st = IF ~c0.st.init THEN InitConditions(@) ELSE @],
            tlsSpec, cert, ca, readyReplicas, o)

\* lines 152-177
InitStage(c0, tlsSpec, cert, ca, readyReplicas, o) ==
  IF ~c0.st.init
  THEN Exit("initialized", [c0 EXCEPT !.st = InitConditions(@)], "empty", "nil")
  ELSE RbacStage(c0, tlsSpec, cert, ca, readyReplicas, o)

\* the body without the IsNotFound test of line 110: a missing object is a
\* read error
BodyNotFoundIsError(st, tlsSpec, cert, ca, readyReplicas, o) ==
  LET c0 == StartCtx(st) IN
  IF o.get \in {"notfound", "error"} THEN Exit("notFound", c0, "empty", "getErr")
  ELSE IF o.helperErr THEN Exit("helperError", c0, "empty", "helperErr")
  ELSE InitStage(c0, tlsSpec, cert, ca, readyReplicas, o)

\* the body of Reconcile, lines 103-330, up to its return statement
Body(st, tlsSpec, cert, ca, readyReplicas, o) ==
  LET c0 == StartCtx(st) IN
  IF o.get = "notfound" THEN Exit("notFound", c0, "empty", "nil")
  ELSE IF o.get = "error" THEN Exit("readError", c0, "empty", "getErr")
  ELSE IF o.helperErr THEN Exit("helperError", c0, "empty", "helperErr")
  ELSE InitStage(c0, tlsSpec, cert, ca, readyReplicas, o)

\* the defer statement moved to the top of Reconcile
DeferRegisteredAlways(path) == TRUE

\* the defer statement is at line 132, after the returns of lines 114, 117
\* and 128: those three leave without the deferred function
DeferRegistered(path) == path \notin {"notFound", "readError", "helperError"}

\* the deferred function without its else branch: Ready is only ever raised
FinalizeNoReset(st) ==
  IF AllSubConditionIsTrue(st) THEN MarkTrue(st, ReadyCondition) ELSE st

\* lines 133-144: the deferred function recomputes the Ready condition
Finalize(st) ==
  IF AllSubConditionIsTrue(st) THEN MarkTrue(st, ReadyCondition)
  ELSE LET reset == MarkUnknown(st, ReadyCondition)
       IN [reset EXCEPT !.cond[ReadyCondition] = Mirror(reset)]

\* the deferred function if it kept an error the body had already returned
ReturnedErrKeepFirst(b, patchErr) ==
  IF b.panicked THEN "panic"
  ELSE IF b.err # "nil" THEN b.err
  ELSE IF DeferRegistered(b.path) /\ patchErr THEN "patchErr"
  ELSE "nil"

\* lines 145-149 and the named results (result, _err): the error the caller
\* sees.  A panic leaves through the deferred function and reaches the
\* caller as a panic, whatever PatchInstance did.
ReturnedErr(b, patchErr) ==
  IF b.panicked THEN "panic"
  ELSE IF DeferRegistered(b.path) /\ patchErr THEN "patchErr"
  ELSE b.err

\* one whole pass over the status read from the store
Pass(st, tlsSpec, cert, ca, replicas, o) ==
  LET b == Body(st, tlsSpec, cert, ca, replicas, o)
      deferred == DeferRegistered(b.path)
  IN [ path |-> b.path,
       prior |-> st,                                  \* Status as read by r.Get
       inst |-> IF deferred THEN Finalize(b.st) ELSE b.st,  \* instance.Status at the end
       bodyReady |-> b.st.cond[ReadyCondition],       \* Ready as the body left it
       bodyRes |-> b.res, bodyErr |-> b.err,          \* operands of the return statement
       panicked |-> b.panicked,
       res |-> b.res, err |-> ReturnedErr(b, o.patchErr),   \* what the caller gets
       patchCalls |-> IF deferred THEN 1 ELSE 0,      \* calls of helper.PatchInstance
       patched |-> deferred /\ ~o.patchErr,           \* PatchInstance succeeded
       reported |-> b.reported,
       calls |-> b.calls, upserted |-> b.upserted, pending |-> b.pending,
       env |-> b.env ]

\* kinds registered with Owns() in SetupWithManager, lines 403-410
OwnedWatched == {"serviceaccount", "role", "rolebinding", "headless", "service", "statefulset"}

\* the work queue after a pass: an error or a non-empty result requeues, and
\* so does the watch event of a changed Redis object or of a new owned object
RequestedAgain(p, objs) ==
  \/ p.err # "nil"
  \/ p.res # "empty"
  \/ (p.patched /\ p.inst # p.prior)
  \/ (p.upserted \cap OwnedWatched) \ objs # {}

NoPass ==
  [ path |-> "none", prior |-> NilStatus, inst |-> NilStatus, bodyReady |-> "Unknown",
    bodyRes |-> "empty", bodyErr |-> "nil", panicked |-> FALSE,
    res |-> "empty", err |-> "nil", patchCalls |-> 0, patched |-> FALSE,
    reported |-> NoReport, calls |-> {}, upserted |-> {}, pending |-> {},
    env |-> NoEnv ]

\* ---------------------------------------------------------------- state
VARIABLES
  exists,         \* the Redis object is in the store
  spec,           \* its Spec.TLS: [enabled, caBundleSecretName (non-empty or not)]
  certSecret,     \* content of the referenced certificate secret
  caSecret,       \* content of the referenced CA bundle secret
  readyReplicas,  \* Status.ReadyReplicas of the StatefulSet
  stored,         \* the persisted Status of the Redis object
  objs,           \* the owned sub-resources that exist
  faults,         \* passes so far in which a collaborator failed
  last,           \* the pass that has just finished, NoPass after any other step
  again,          \* a reconcile request for the object is in the work queue
  prev            \* the pass before last, NoPrev if anything else happened in between

vars == <<exists, spec, certSecret, caSecret, readyReplicas, stored, objs, faults, last, again, prev>>

\* what is kept of the pass before: the return it left by, and whether its
\* status patch went through with no upsert still converging
NoPrev == [path |-> "none", ok |-> FALSE]
Settled(p) == p.patched /\ p.pending = {}

TLSSpecs == [enabled : BOOLEAN, caBundleSecretName : BOOLEAN]
NoTLS == [enabled |-> FALSE, caBundleSecretName |-> FALSE]

Init ==
  /\ exists = FALSE
  /\ spec = NoTLS
  /\ certSecret = 0
  /\ caSecret = 0
  /\ readyReplicas = 0
  /\ stored = NilStatus
  /\ objs = {}
  /\ faults = 0
  /\ last = NoPass
  /\ again = FALSE
  /\ prev = NoPrev

\* the kinds SetupWithManager watches, lines 403-410: For(Redis) and the five
\* Owns(); no watch of Secret is registered
WatchedKinds == {"Redis", "StatefulSet", "Service", "ServiceAccount", "Role", "RoleBinding"}

\* the names and the namespace of the one Redis object and of its two secrets
InstanceNamespace == "ns"
CertSecretName == "cert"
CASecretName == "ca"

\* the two index functions of lines 380-401: the secret names a Redis object
\* is indexed under
caSecretNameField(t) == IF t.caBundleSecretName THEN {CASecretName} ELSE {}
serviceSecretNameField(t) == IF t.enabled THEN {CertSecretName} ELSE {}

\* findObjectsForSrc, lines 414-441: the Redis objects of the namespace of src
\* that one of the two indexes lists under the name of src
findObjectsForSrc(srcName, srcNamespace, present, t) ==
  IF /\ present
     /\ srcNamespace = InstanceNamespace
     /\ srcName \in caSecretNameField(t) \cup serviceSecretNameField(t)
  THEN {"redis"}
  ELSE {}

\* the requests an event of a secret puts into the work queue: those of
\* findObjectsForSrc if Secret is watched with it as map function
SecretEventRequests(srcName, srcNamespace, present, t) ==
  IF "Secret" \in WatchedKinds
  THEN findObjectsForSrc(srcName, srcNamespace, present, t)
  ELSE {}

\* Reconciler.Reconcile, lines 103-330, with its deferred function: one pass
\* for a request taken from the work queue
Reconcile(o) ==
  /\ o # NoFault => faults < MaxFaults
  /\ UNCHANGED <<exists, spec, certSecret, caSecret, readyReplicas>>
  /\ faults' = IF o # NoFault THEN faults + 1 ELSE faults
  /\ prev' = [path |-> last.path, ok |-> Settled(last)]
  /\ LET got == IF exists THEN o ELSE [o EXCEPT !.get = IF @ = "ok" THEN "notfound" ELSE @]
         p == Pass(stored, spec, certSecret, caSecret, readyReplicas, got)
     IN /\ last' = p
        /\ stored' = IF p.patched THEN p.inst ELSE stored
        /\ objs' = objs \cup p.upserted
        /\ again' = RequestedAgain(p, objs)

\* ------------------------------------------------------- the environment
\* a secret is tracked while the spec refers to it
Referenced(t, content, isCA) ==
  IF (IF isCA THEN CAWanted(t) ELSE CertWanted(t)) THEN content ELSE 0

CreateInstance(t, cert, ca) ==
  /\ ~exists
  /\ exists' = TRUE
  /\ spec' = t
  /\ certSecret' = Referenced(t, cert, FALSE)
  /\ caSecret' = Referenced(t, ca, TRUE)
  /\ stored' = NilStatus
  /\ last' = NoPass
  /\ again' = ("Redis" \in WatchedKinds)
  /\ prev' = NoPrev
  /\ UNCHANGED <<readyReplicas, objs, faults>>

UpdateSpec(t, cert, ca) ==
  /\ exists
  /\ t # spec
  /\ spec' = t
  /\ certSecret' = IF CertWanted(spec) THEN Referenced(t, certSecret, FALSE)
                   ELSE Referenced(t, cert, FALSE)
  /\ caSecret' = IF CAWanted(spec) THEN Referenced(t, caSecret, TRUE)
                 ELSE Referenced(t, ca, TRUE)
  /\ last' = NoPass
  /\ again' = ("Redis" \in WatchedKinds)
  /\ prev' = NoPrev
  /\ UNCHANGED <<exists, readyReplicas, stored, objs, faults>>

\* deletion: the owned objects are garbage collected with the Redis object
DeleteInstance ==
  /\ exists
  /\ exists' = FALSE
  /\ spec' = NoTLS
  /\ certSecret' = 0
  /\ caSecret' = 0
  /\ stored' = NilStatus
  /\ objs' = {}
  /\ readyReplicas' = 0
  /\ last' = NoPass
  /\ again' = ("Redis" \in WatchedKinds)
  /\ prev' = NoPrev
  /\ UNCHANGED faults

WriteCertSecret(v) ==
  /\ exists /\ CertWanted(spec)
  /\ v # certSecret
  /\ certSecret' = v
  /\ last' = NoPass
  /\ again' = (again \/ SecretEventRequests(CertSecretName, InstanceNamespace, exists, spec) # {})
  /\ prev' = NoPrev
  /\ UNCHANGED <<exists, spec, caSecret, readyReplicas, stored, objs, faults>>

WriteCASecret(v) ==
  /\ exists /\ CAWanted(spec)
  /\ v # caSecret
  /\ caSecret' = v
  /\ last' = NoPass
  /\ again' = (again \/ SecretEventRequests(CASecretName, InstanceNamespace, exists, spec) # {})
  /\ prev' = NoPrev
  /\ UNCHANGED <<exists, spec, certSecret, readyReplicas, stored, objs, faults>>

\* the StatefulSet controller reports its ready replicas
WorkloadStatus(n) ==
  /\ "statefulset" \in objs
  /\ n # readyReplicas
  /\ readyReplicas' = n
  /\ last' = NoPass
  /\ again' = ("StatefulSet" \in WatchedKinds)
  /\ prev' = NoPrev
  /\ UNCHANGED <<exists, spec, certSecret, caSecret, stored, objs, faults>>

\* the contents a secret may have; one the spec does not refer to is not tracked
SecretContents(wanted) == IF wanted THEN 0..MaxVer ELSE {0}

Next ==
  \/ \E o \in Outcomes : Reconcile(o)
  \/ \E t \in TLSSpecs :
       \E cert \in SecretContents(CertWanted(t)), ca \in SecretContents(CAWanted(t)) :
         CreateInstance(t, cert, ca)
  \/ \E t \in TLSSpecs :
       \E cert \in SecretContents(CertWanted(t)), ca \in SecretContents(CAWanted(t)) :
         UpdateSpec(t, cert, ca)
  \/ DeleteInstance
  \/ \E v \in 0..MaxVer : WriteCertSecret(v)
  \/ \E v \in 0..MaxVer : WriteCASecret(v)
  \/ \E n \in 0..MaxReplicas : WorkloadStatus(n)

Spec == Init /\ [][Next]_vars

\* a step that is a pass of Reconcile: every other action leaves NoPass
PassStep == last'.path # "none"

\* the work queue hands a request it holds to Reconcile in the end.  This is
\* weak fairness of the passes taken for a queued request, WF_vars(again /\
\* \E o \in Outcomes : Reconcile(o)), written out: such a pass is enabled
\* exactly when again holds.
QueueIsServed == []<>(~again) \/ []<><<PassStep>>_vars
FairSpec == Spec /\ QueueIsServed

\* what makes the two readings of QueueIsServed agree: while a request is
\* queued, a pass with working collaborators changes the state
NextPassMoves ==
  LET p == Pass(stored, spec, certSecret, caSecret, readyReplicas,
                IF exists THEN NoFault ELSE [NoFault EXCEPT !.get = "notfound"])
  IN \/ p # last
     \/ prev # [path |-> last.path, ok |-> Settled(last)]
     \/ (p.patched /\ p.inst # stored)
     \/ ~(p.upserted \subseteq objs)
     \/ again # RequestedAgain(p, objs)
QueuedPassIsEnabled == again => NextPassMoves

TypeOK ==
  /\ exists \in BOOLEAN
  /\ spec \in TLSSpecs
  /\ certSecret \in 0..MaxVer
  /\ caSecret \in 0..MaxVer
  /\ readyReplicas \in 0..MaxReplicas
  /\ faults \in 0..MaxFaults
  /\ again \in BOOLEAN
  /\ prev.ok \in BOOLEAN
  /\ objs \subseteq (OwnedWatched \cup {"scripts", "config-data"})

\* ------------------------------------------------------------ properties
\* Every property below speaks of the pass that has just finished (last) and
\* of the store it left behind.  A failing status patch replaces the error of
\* the pass (lines 145-149), so what a pass "returns" is stated twice: the
\* operands of its return statement (bodyRes, bodyErr) and, when the patch
\* went through, the values the caller gets (res, err).

PassDone == last.path # "none"

\* the three returns that come before the defer statement
EarlyPaths == {"notFound", "readError", "helperError"}

RbacNames == {RbacObjects[i] : i \in 1..Len(RbacObjects)}
Downstream == {"configmaps", "hash", "headless", "service", "statefulset"}
EndpointAndWorkload == {"headless", "service", "statefulset"}

\* the Ready condition as a function of the sub-conditions of a status
ReadyOf(st) ==
  IF \A c \in SubConditions : st.cond[c] = "True" THEN "True"
  ELSE IF \E c \in SubConditions : st.cond[c] = "False" THEN "False"
  ELSE "Unknown"

\* the pass ended with the values it meant to return
ReturnsAsMeant == last.patched => last.res = last.bodyRes /\ last.err = last.bodyErr

\* C1, as claimed: on every exit path of Reconcile, the not-found, read-error
\* and helper-error returns included, the finalization runs and patches the
\* status exactly once.
C1_EveryExitFinalizes == PassDone => last.patchCalls = 1

\* C1, amended: on every exit path after the defer statement the finalization
\* runs once: Ready is recomputed from the sub-conditions, PatchInstance is
\* called exactly once and, if it succeeds, the store holds the recomputed
\* status.  The three returns before the defer statement run no finalization
\* and leave the store as it was.
C1_FinalizesAfterDefer ==
  PassDone =>
    IF last.path \in EarlyPaths
    THEN last.patchCalls = 0 /\ ~last.patched /\ stored = last.prior
    ELSE /\ last.patchCalls = 1
         /\ last.inst.cond[ReadyCondition] = ReadyOf(last.inst)
         /\ (last.patched => stored = last.inst)
         /\ (~last.patched => stored = last.prior)

\* an early return after the defer statement whose status was patched
C1_Witness ==
  /\ last.path = "hashError"
  /\ last.patchCalls = 1
  /\ last.patched
  /\ stored.cond[ReadyCondition] = "Unknown"

\* C2: in every persisted status with a condition ledger, Ready is True
\* exactly if every sub-condition is True; and a pass hands to PatchInstance a
\* status for which the same holds.
C2_ReadyIffAllSubConditions ==
  /\ stored.init =>
       (stored.cond[ReadyCondition] = "True" <=>
          \A c \in SubConditions : stored.cond[c] = "True")
  /\ (PassDone /\ last.patchCalls = 1) =>
       (last.inst.cond[ReadyCondition] = "True" <=>
          \A c \in SubConditions : last.inst.cond[c] = "True")

\* a pass that found Ready True, set one sub-condition False and persisted
\* a status whose Ready is no longer True
C2_Witness ==
  /\ last.path = "configError"
  /\ last.patched
  /\ last.prior.cond[ReadyCondition] = "True"
  /\ stored.cond[ServiceConfigReadyCondition] = "False"
  /\ stored.cond[ReadyCondition] = "False"

\* the pass reached the comparison of line 254 and the aggregate differed
HashDrift ==
  /\ PassDone
  /\ "hash" \in last.calls
  /\ last.path # "hashError"
  /\ HashOfInputHashes(last.env) # last.prior.hash[InputHashName]

\* C3: a pass whose aggregate hash differs from the stored one puts the new
\* aggregate and every input hash of this pass into the status, patches it,
\* upserts no endpoint and no workload, returns (Result{}, nil) and leaves a
\* request for another pass.
C3_DriftPersistsAndSkips ==
  HashDrift =>
    /\ last.inst.hash[InputHashName] = HashOfInputHashes(last.env)
    /\ \A k \in EnvKeySet : last.env[k] # Absent => last.inst.hash[k] = last.env[k]
    /\ last.patchCalls = 1
    /\ (last.patched => stored = last.inst)
    /\ last.calls \cap EndpointAndWorkload = {}
    /\ last.bodyRes = "empty" /\ last.bodyErr = "nil"
    /\ ReturnsAsMeant
    /\ again

\* the CA secret changed since the hashes were last stored
C3_Witness ==
  /\ HashDrift
  /\ last.patched
  /\ last.prior.hash["CA"] # Absent
  /\ last.env["CA"] # Absent
  /\ last.env["CA"] # last.prior.hash["CA"]
  /\ stored.hash["CA"] = last.env["CA"]

\* a validation handed back "" and an error
ValidationFailed ==
  PassDone /\ (last.env["Cert"] = EmptyHash \/ last.env["CA"] = EmptyHash)

\* C4: if the validation of the certificate secret or of the CA bundle secret
\* fails, the pass sets TLSInputReady False, returns an error and calls no
\* configuration, endpoint or workload upsert.
C4_ValidationFailureAborts ==
  ValidationFailed =>
    /\ last.inst.cond[TLSInputReadyCondition] = "False"
    /\ (last.patched => stored.cond[TLSInputReadyCondition] = "False")
    /\ last.bodyErr = "inputHashErr"
    /\ last.err # "nil"
    /\ last.calls \cap Downstream = {}
    /\ last.upserted \cap {"scripts", "config-data", "headless", "service", "statefulset"} = {}

\* the certificate was fine and the CA bundle was not
C4_Witness ==
  /\ ValidationFailed
  /\ last.env["Cert"] # EmptyHash /\ last.env["Cert"] # Absent
  /\ last.env["CA"] = EmptyHash
  /\ last.patched
  /\ stored.cond[TLSInputReadyCondition] = "False"

\* both validations of the pass went through
Fingerprinted == PassDone /\ "configmaps" \in last.calls

\* C5, as claimed: the Cert and CA entries are those of an enabled transport
\* security; when it is disabled there is neither a Cert nor a CA entry,
\* whatever the CA bundle secret name is.
C5_NoEntriesWhenDisabled ==
  Fingerprinted =>
    /\ (last.env["Cert"] # Absent <=> spec.enabled)
    /\ (last.env["CA"] # Absent <=> spec.enabled /\ spec.caBundleSecretName)

\* C5, amended: the mapping holds a Cert entry exactly if transport security
\* is enabled and a CA entry exactly if the CA bundle secret name is not
\* empty, whether transport security is enabled or not; each entry is the
\* hash of the secret read.
C5_EntriesFollowEachSetting ==
  Fingerprinted =>
    /\ (last.env["Cert"] # Absent <=> spec.enabled)
    /\ (last.env["CA"] # Absent <=> spec.caBundleSecretName)
    /\ (spec.enabled => last.env["Cert"] = SecretHash(certSecret))
    /\ (spec.caBundleSecretName => last.env["CA"] = SecretHash(caSecret))

\* transport security disabled, CA bundle named: a CA entry and no Cert entry
C5_Witness ==
  /\ Fingerprinted
  /\ ~spec.enabled /\ spec.caBundleSecretName
  /\ last.env["CA"] # Absent
  /\ last.env["Cert"] = Absent

\* CreateOrPatch of an endpoint was called and handed back an error
EndpointUpsertFailed ==
  PassDone /\ \E e \in {"headless", "service"} : e \in last.calls /\ e \notin last.upserted

\* C6: if the upsert of the headless or of the user-facing service fails, the
\* pass sets ExposeServiceReady False, persists it and returns the result and
\* the error that upsert handed back.
C6_EndpointFailureReported ==
  EndpointUpsertFailed =>
    /\ last.inst.cond[ExposeServiceReadyCondition] = "False"
    /\ (last.patched => stored.cond[ExposeServiceReadyCondition] = "False")
    /\ (last.patched => last.res = last.reported.res /\ last.err = last.reported.err)

\* CreateOrPatch of the StatefulSet was called and handed back an error
WorkloadUpsertFailed ==
  PassDone /\ "statefulset" \in last.calls /\ "statefulset" \notin last.upserted

\* C7: with DeploymentReady True in the persisted status, a pass whose
\* StatefulSet upsert fails returns the result and error of that upsert and
\* leaves DeploymentReady True.
C7_WorkloadFailureKeepsReady ==
  (WorkloadUpsertFailed /\ last.prior.cond[DeploymentReadyCondition] = "True") =>
    /\ last.reported.err # "nil"
    /\ last.bodyRes = last.reported.res /\ last.bodyErr = last.reported.err
    /\ ReturnsAsMeant
    /\ last.inst.cond[DeploymentReadyCondition] = "True"
    /\ stored.cond[DeploymentReadyCondition] = "True"

C7_Witness ==
  /\ WorkloadUpsertFailed
  /\ last.prior.cond[DeploymentReadyCondition] = "True"
  /\ last.patched
  /\ last.res = "requeue" /\ last.err = "sferr"
  /\ stored.cond[DeploymentReadyCondition] = "True"

\* the pass got its helper and found no condition ledger
FoundNilLedger == PassDone /\ last.path \notin EarlyPaths /\ ~last.prior.init

\* C8: a pass that finds a nil condition ledger initializes every condition,
\* Ready included, to Unknown, patches that status, calls no sub-resource
\* reconciler, returns (Result{}, nil) and leaves a request for another pass.
C8_FirstPassOnlyInitializes ==
  FoundNilLedger =>
    /\ last.inst.init
    /\ \A c \in AllConditions : last.inst.cond[c] = "Unknown"
    /\ last.patchCalls = 1
    /\ (last.patched => stored = last.inst)
    /\ last.calls = {} /\ last.upserted = {}
    /\ last.bodyRes = "empty" /\ last.bodyErr = "nil"
    /\ ReturnsAsMeant
    /\ again

C8_Witness ==
  /\ FoundNilLedger
  /\ last.patched
  /\ stored.init
  /\ \A c \in AllConditions : stored.cond[c] = "Unknown"
  /\ last.err = "nil"
  /\ again

\* ReconcileRbac handed back an error or a non-empty result
RbacStopped ==
  /\ PassDone
  /\ last.calls \cap RbacNames # {}
  /\ \/ \E n \in RbacNames : n \in last.calls /\ n \notin last.upserted
     \/ last.pending \cap RbacNames # {}

\* C9: if ReconcileRbac hands back an error or a non-empty result, the pass
\* returns that result and that error (none when it is only pending) and
\* calls no validation, configuration, endpoint or workload collaborator.
C9_RbacShortCircuits ==
  RbacStopped =>
    /\ last.bodyRes = last.reported.res /\ last.bodyErr = last.reported.err
    /\ (last.bodyErr = "nil" => last.bodyRes # "empty")
    /\ ReturnsAsMeant
    /\ last.calls \subseteq RbacNames

\* pending: a requeue and no error
C9_Witness ==
  /\ RbacStopped
  /\ last.pending \cap RbacNames # {}
  /\ last.patched
  /\ last.res = "requeue" /\ last.err = "nil"
  /\ last.calls \subseteq RbacNames

\* r.Get found no object
ReadNotFound == PassDone /\ ~exists /\ last.path # "readError"

\* C10: if the Redis object does not exist when the pass reads it, Reconcile
\* returns (Result{}, nil), asks for no requeue and writes nothing.
C10_NotFoundIsNoop ==
  ReadNotFound =>
    /\ last.res = "empty" /\ last.err = "nil"
    /\ ~again
    /\ last.patchCalls = 0
    /\ last.calls = {} /\ last.upserted = {}
    /\ stored = last.prior
    /\ objs = {}

C10_Witness == ReadNotFound /\ last.path = "notFound" /\ last.res = "empty" /\ ~again

\* the returns a pass of an existing object leaves by when every collaborator
\* it calls succeeds
CleanPaths == {"initialized", "hashChanged", "done"}

\* the pass that has just finished met no failing and no converging
\* collaborator, and its status patch went through
CleanPass == PassDone /\ last.path \in CleanPaths /\ Settled(last)

\* last is the second of two such passes with nothing else in between
TwoCleanPasses == prev.path \in CleanPaths /\ prev.ok /\ CleanPass

\* C11, as claimed: of any two passes with no external change in between, the
\* second leaves the status the first left.
C11_AnySecondPassChangesNothing ==
  TwoCleanPasses => last.inst = last.prior /\ stored = last.prior

\* C11, amended: once a pass has gone through every stage (it left by the
\* last return), a second pass with no external change in between goes
\* through every stage again, leaves the status identical, conditions and
\* hashes, creates no owned object and leaves no request for a further pass.
C11_IdempotentOnceDone ==
  (TwoCleanPasses /\ prev.path = "done") =>
    /\ last.path = "done"
    /\ last.inst = last.prior
    /\ stored = last.prior
    /\ last.res = "empty" /\ last.err = "nil"
    /\ ~again

\* two passes through every stage in a row, the instance Ready
C11_Witness ==
  /\ TwoCleanPasses
  /\ prev.path = "done"
  /\ last.path = "done"
  /\ last.inst = last.prior
  /\ stored.cond[ReadyCondition] = "True"
  /\ ~again

\* helper.PatchInstance was called and failed
PatchFailed == PassDone /\ last.patchCalls = 1 /\ ~last.patched

\* C12, as claimed: when the status patch of the finalization fails, the pass
\* returns the patch error and nothing of what it meant to return survives,
\* neither its error nor its result.
C12_PatchFailureOverridesAll ==
  (PatchFailed /\ ~last.panicked) => last.err = "patchErr" /\ last.res = "empty"

\* C12, amended: when the status patch fails, the patch error takes the place
\* of the error of the return statement, whatever that was; the result of the
\* return statement is handed back unchanged beside it, and the store keeps
\* the status it had.  The error leaves a request for another pass.  A pass
\* that panicked reaches its caller as a panic.
C12_PatchFailureReplacesError ==
  PatchFailed =>
    /\ stored = last.prior
    /\ last.res = last.bodyRes
    /\ (last.panicked => last.err = "panic")
    /\ (~last.panicked => last.err = "patchErr")
    /\ again

\* rbac handed back a requeue with an error, and the patch failed too
C12_Witness ==
  /\ PatchFailed
  /\ last.bodyErr = "rbacErr" /\ last.bodyRes = "requeue"
  /\ last.err = "patchErr" /\ last.res = "requeue"
  /\ last.inst # last.prior
  /\ stored = last.prior

\* an endpoint upsert or the workload upsert handed back a non-empty result
\* and no error
ConvergingUpsert == PassDone /\ last.pending \cap EndpointAndWorkload # {}

\* C13, as claimed: when an endpoint upsert or the workload upsert reports a
\* non-empty result with no error, the pass returns no error and a result
\* that asks for a requeue.
C13_ConvergingIsRequeued ==
  ConvergingUpsert => last.bodyErr = "nil" /\ last.bodyRes = "requeue"

\* C13, amended: a non-empty result that an endpoint upsert or the workload
\* upsert hands back with no error is dropped.  The pass goes on with the
\* stages that follow, marks ExposeServiceReady True once both endpoints are
\* upserted and, if nothing after fails, returns (Result{}, nil): no error and
\* no requeue hint.
C13_ConvergingResultDropped ==
  ConvergingUpsert =>
    /\ ("headless" \in last.pending => "service" \in last.calls)
    /\ ("service" \in last.pending => "statefulset" \in last.calls)
    /\ ("service" \in last.upserted =>
          last.inst.cond[ExposeServiceReadyCondition] = "True")
    /\ (last.bodyErr = "nil" =>
          last.path = "done" /\ last.bodyRes = "empty" /\ ReturnsAsMeant)

\* the headless service is still converging; the pass ran to its end
C13_Witness ==
  /\ ConvergingUpsert
  /\ "headless" \in last.pending
  /\ last.reported = NoReport
  /\ last.path = "done"
  /\ last.patched
  /\ last.res = "empty" /\ last.err = "nil"
  /\ "statefulset" \in last.upserted

\* the scenario of C14: ledger initialized, transport security disabled, rbac
\* ready with an empty result, aggregate hash equal to the stored one, both
\* endpoints upserted, StatefulSet upserted and reporting a ready replica
SteadyScenario ==
  /\ PassDone
  /\ last.prior.init
  /\ ~spec.enabled
  /\ RbacNames \subseteq last.upserted
  /\ last.pending \cap RbacNames = {}
  /\ "hash" \in last.calls /\ last.path # "hashError"
  /\ HashOfInputHashes(last.env) = last.prior.hash[InputHashName]
  /\ {"headless", "service", "statefulset"} \subseteq last.upserted
  /\ readyReplicas >= 1

\* C14: in that scenario the pass ends with every sub-condition and Ready
\* True and returns (Result{}, nil); once the status patch has gone through,
\* the persisted status has Ready True and the caller gets no error.
C14_SteadyScenarioIsReady ==
  SteadyScenario =>
    /\ \A c \in SubConditions : last.inst.cond[c] = "True"
    /\ last.inst.cond[ReadyCondition] = "True"
    /\ last.bodyRes = "empty" /\ last.bodyErr = "nil"
    /\ (last.patched => stored.cond[ReadyCondition] = "True" /\ last.err = "nil")

\* the pass that turns Ready True, with no CA bundle named either
C14_Witness ==
  /\ SteadyScenario
  /\ ~spec.caBundleSecretName
  /\ last.prior.cond[ReadyCondition] # "True"
  /\ last.patched
  /\ stored.cond[ReadyCondition] = "True"
  /\ last.err = "nil"

\* generateConfigMaps was called and handed back an error
ConfigFailed ==
  /\ PassDone
  /\ "configmaps" \in last.calls
  /\ ~({"scripts", "config-data"} \subseteq last.upserted)

\* C15: if generateConfigMaps fails, the pass sets ServiceConfigReady False,
\* returns an error, computes and compares no hash, upserts no endpoint and
\* no workload, and leaves the stored hash mapping as it was.
C15_ConfigFailureAborts ==
  ConfigFailed =>
    /\ last.inst.cond[ServiceConfigReadyCondition] = "False"
    /\ (last.patched => stored.cond[ServiceConfigReadyCondition] = "False")
    /\ last.bodyRes = "empty" /\ last.bodyErr = "configmapHashErr"
    /\ last.err # "nil"
    /\ last.calls \cap {"hash", "headless", "service", "statefulset"} = {}
    /\ last.inst.hash = last.prior.hash
    /\ stored.hash = last.prior.hash

\* the failure comes after hashes were stored and the secrets have changed
\* since: the drift is not looked at in this pass
C15_Witness ==
  /\ ConfigFailed
  /\ last.patched
  /\ last.prior.cond[ServiceConfigReadyCondition] = "True"
  /\ stored.cond[ServiceConfigReadyCondition] = "False"
  /\ last.prior.hash["Cert"] # Absent
  /\ last.env["Cert"] # last.prior.hash["Cert"]
  /\ stored.hash = last.prior.hash

\* C16: when a secret that the Redis object refers to (by its certificate
\* secret name or its CA bundle secret name, in its namespace) changes, a
\* reconcile request for that object is put into the work queue.
C16_SecretChangeRequestsPass ==
  [][ ( /\ exists /\ exists'
        /\ spec' = spec
        /\ <<certSecret, caSecret>>' # <<certSecret, caSecret>> )
      => again' ]_vars

\* the pass worked on a status whose ledger was initialized before
PassOverLedger == PassDone /\ last.path \notin EarlyPaths /\ last.prior.init

\* C17: no pass moves a sub-condition that has left Unknown back to Unknown,
\* neither in the status it hands to PatchInstance nor in the store; the body
\* of the pass leaves Ready as it found it, so Ready changes only in the
\* recomputation of the deferred function.
C17_NoReturnToUnknown ==
  PassOverLedger =>
    /\ \A c \in SubConditions :
         last.prior.cond[c] # "Unknown" =>
           /\ last.inst.cond[c] \in {"True", "False"}
           /\ stored.cond[c] \in {"True", "False"}
    /\ last.bodyReady = last.prior.cond[ReadyCondition]
    /\ last.inst.cond[ReadyCondition] = ReadyOf(last.inst)

\* a sub-condition that was False is True again, and Ready with it
C17_Witness ==
  /\ PassOverLedger
  /\ last.patched
  /\ last.prior.cond[TLSInputReadyCondition] = "False"
  /\ stored.cond[TLSInputReadyCondition] = "True"
  /\ last.prior.cond[ReadyCondition] = "False"
  /\ stored.cond[ReadyCondition] = "True"

\* the inputs as a pass with working collaborators hashes them now
CurrentEnv ==
  [k \in EnvKeySet |->
     CASE k = "Cert" -> IF CertWanted(spec) THEN SecretHash(certSecret) ELSE Absent
       [] k = "CA" -> IF CAWanted(spec) THEN SecretHash(caSecret) ELSE Absent
       [] k = "scripts" -> ScriptsHash
       [] k = "config-data" -> ConfigDataHash]

\* the stored aggregate is that of the inputs as they are now
StoredMatchesInputs == exists /\ stored.hash[InputHashName] = HashOfInputHashes(CurrentEnv)

\* a pass found drift and its status was patched
DriftPersisted == HashDrift /\ last.patched

\* the pass reached the comparison of line 254
ReachedComparison == PassDone /\ "hash" \in last.calls /\ last.path # "hashError"

\* the pass went on to the endpoints
ReachedEndpoints == last.path = "headlessNewError" \/ "headless" \in last.calls

\* the safety part of C18
DriftSettles ==
  /\ DriftPersisted => StoredMatchesInputs
  /\ (ReachedComparison /\ last.prior.hash[InputHashName] = HashOfInputHashes(CurrentEnv)) =>
       ~HashDrift /\ ReachedEndpoints
  /\ (ReachedComparison /\ prev.path = "hashChanged" /\ prev.ok) =>
       last.path # "hashChanged" /\ ReachedEndpoints

\* the endpoints and the workload have been upserted
AllUpserted == PassDone /\ EndpointAndWorkload \subseteq last.upserted

\* C18: once a drift pass has persisted its hashes, the stored aggregate is
\* that of the inputs; a pass that reaches the comparison while this is so,
\* and in particular the pass right after a persisted drift pass, finds no
\* drift and goes on to the endpoints, so no two drift passes follow each
\* other.  With a work queue that hands on every request, and only a bounded
\* number of failing collaborator calls, the endpoints and the workload are
\* upserted in the end, unless the object is deleted or its inputs change
\* again first.
C18_DriftConverges ==
  /\ []DriftSettles
  /\ DriftPersisted ~> (AllUpserted \/ ~StoredMatchesInputs)

\* the pass right after a persisted drift pass of an object with a CA bundle
\* finds no drift and upserts endpoints and workload
C18_Witness ==
  /\ prev.path = "hashChanged" /\ prev.ok
  /\ ReachedComparison
  /\ ~HashDrift
  /\ AllUpserted
  /\ last.prior.hash["CA"] # Absent
  /\ StoredMatchesInputs

\* the StatefulSet was upserted and reports no ready replica
WorkloadNotReady == PassDone /\ "statefulset" \in last.upserted /\ readyReplicas = 0

\* C19: a pass whose StatefulSet upsert succeeds while no replica is ready
\* leaves DeploymentReady as it found it; no status, in a pass or in the
\* store, ever has DeploymentReady False; and a pass that finds it True hands
\* it on True, so that it stays True in the store.
C19_DeploymentReadyNeverRegresses ==
  /\ stored.cond[DeploymentReadyCondition] # "False"
  /\ PassDone => last.inst.cond[DeploymentReadyCondition] # "False"
  /\ WorkloadNotReady =>
       /\ last.inst.cond[DeploymentReadyCondition] = last.prior.cond[DeploymentReadyCondition]
       /\ stored.cond[DeploymentReadyCondition] = last.prior.cond[DeploymentReadyCondition]
  /\ (PassDone /\ last.prior.cond[DeploymentReadyCondition] = "True") =>
       /\ last.inst.cond[DeploymentReadyCondition] = "True"
       /\ stored.cond[DeploymentReadyCondition] = "True"

\* the replicas are gone and the instance is still reported Ready
C19_Witness ==
  /\ WorkloadNotReady
  /\ last.path = "done"
  /\ last.patched
  /\ last.prior.cond[DeploymentReadyCondition] = "True"
  /\ stored.cond[DeploymentReadyCondition] = "True"
  /\ stored.cond[ReadyCondition] = "True"

\* C20: a pass that leaves by any return other than that of a hash drift
\* leaves the hash mapping as it found it, in memory and in the store.  A
\* drift pass removes no entry: every name present before is present after,
\* and a name that is not among the inputs of this pass keeps the hash it
\* had.
C20_HashEntriesOnlyGrow ==
  PassDone =>
    IF last.path # "hashChanged"
    THEN last.inst.hash = last.prior.hash /\ stored.hash = last.prior.hash
    ELSE /\ \A k \in HashKeys :
              last.prior.hash[k] # Absent =>
                /\ last.inst.hash[k] # Absent
                /\ stored.hash[k] # Absent
         /\ \A k \in EnvKeySet :
              last.env[k] = Absent =>
                /\ last.inst.hash[k] = last.prior.hash[k]
                /\ stored.hash[k] = last.prior.hash[k]
         /\ stored.hash = IF last.patched THEN last.inst.hash ELSE last.prior.hash

\* transport security has been disabled: the drift pass keeps the Cert entry
C20_Witness ==
  /\ last.path = "hashChanged"
  /\ last.patched
  /\ ~spec.enabled
  /\ last.env["Cert"] = Absent
  /\ last.prior.hash["Cert"] # Absent
  /\ stored.hash["Cert"] = last.prior.hash["Cert"]
  /\ stored.hash[InputHashName] # last.prior.hash[InputHashName]

====
